---- MODULE Spec2Model ----
(***************************************************************************)
(* Model of static/main.js of the sports-betting calculator: the American  *)
(* to decimal odds conversion, the capped Kelly stake, the page's input,   *)
(* submit and empirical-info handlers.                                     *)
(*                                                                         *)
(* JavaScript numbers are modelled as exact values: a pair <<n, d>> with   *)
(* d > 0 is the rational n/d in lowest terms, <<1, 0>> is Infinity,        *)
(* <<-1, 0>> is -Infinity and <<0, 0>> is NaN.  Binary rounding error of   *)
(* IEEE doubles is not modelled; the special values and the decimal        *)
(* roundings of toFixed and Math.round are.                                *)
(***************************************************************************)
EXTENDS Integers, Sequences, FiniteSets, TLC

(* ------------------------------------------------------------------ *)
(* Bounds of the model                                                 *)
(* ------------------------------------------------------------------ *)
MaxMant == 30          \* American odds inputs are m * 10^e, |m| <= MaxMant
MaxNegExp == 5         \* ... with e <= MaxNegExp for the negative ones
MaxPosExp == 3         \* ... and e <= MaxPosExp for the positive ones
MaxKellyOdds == 4      \* Kelly odds are drawn from American k * 50, |k| <= MaxKellyOdds
MaxBankrollSmall == 7  \* bankroll is m dollars, m <= MaxBankrollSmall
MaxBankrollStep == 4   \* ... or 250 * m dollars, m <= MaxBankrollStep
MaxCapStep == 4        \* cap fraction is k / 200, k <= MaxCapStep, or 1
MaxProbStep == 21      \* probability is k / 20, -1 <= k <= MaxProbStep
MaxRequests == 3       \* empirical-info requests issued by one page

(* ------------------------------------------------------------------ *)
(* JavaScript numbers                                                  *)
(* ------------------------------------------------------------------ *)
Abs(x) == IF x < 0 THEN -x ELSE x

Sgn(x) == IF x < 0 THEN -1 ELSE IF x > 0 THEN 1 ELSE 0

RECURSIVE GCD(_, _)
GCD(a, b) == IF b = 0 THEN a ELSE GCD(b, a % b)

RECURSIVE Pow10(_)
Pow10(k) == IF k = 0 THEN 1 ELSE 10 * Pow10(k - 1)

NaN == <<0, 0>>

Infinity == <<1, 0>>

Num(n, d) ==
    IF d = 0 THEN <<Sgn(n), 0>>
    ELSE LET g == GCD(Abs(n), Abs(d))
         IN  <<(Sgn(d) * n) \div g, Abs(d) \div g>>

Whole(n) == <<n, 1>>

IsNaN(x) == x = NaN

isFinite(x) == x[2] # 0

Neg(x) == <<-x[1], x[2]>>

Add(x, y) ==
    IF IsNaN(x) \/ IsNaN(y) THEN NaN
    ELSE IF ~isFinite(x) /\ ~isFinite(y) THEN (IF x = y THEN x ELSE NaN)
    ELSE IF ~isFinite(x) THEN x
    ELSE IF ~isFinite(y) THEN y
    ELSE LET g == GCD(x[2], y[2])
         IN  Num(x[1] * (y[2] \div g) + y[1] * (x[2] \div g), (x[2] \div g) * y[2])

Sub(x, y) == Add(x, Neg(y))

Mul(x, y) ==
    IF isFinite(x) /\ isFinite(y)
    THEN LET g1 == GCD(Abs(x[1]), y[2])
             g2 == GCD(Abs(y[1]), x[2])
         IN  Num((x[1] \div g1) * (y[1] \div g2), (x[2] \div g2) * (y[2] \div g1))
    ELSE Num(x[1] * y[1], x[2] * y[2])

Recip(y) ==
    IF IsNaN(y) THEN NaN
    ELSE IF y[1] = 0 THEN Infinity
    ELSE IF y[2] = 0 THEN Whole(0)
    ELSE <<Sgn(y[1]) * y[2], Abs(y[1])>>

Div(x, y) == Mul(x, Recip(y))

Lt(x, y) ==
    /\ ~IsNaN(x)
    /\ ~IsNaN(y)
    /\ IF ~isFinite(x) /\ ~isFinite(y) THEN x[1] < y[1]
       ELSE IF ~isFinite(x) THEN x[1] < 0
       ELSE IF ~isFinite(y) THEN y[1] > 0
       ELSE Sub(x, y)[1] < 0

Le(x, y) == ~IsNaN(x) /\ ~IsNaN(y) /\ ~Lt(y, x)

MathAbs(x) == <<Abs(x[1]), x[2]>>

MathMax(x, y) == IF IsNaN(x) \/ IsNaN(y) THEN NaN ELSE IF Lt(x, y) THEN y ELSE x

MathMin(x, y) == IF IsNaN(x) \/ IsNaN(y) THEN NaN ELSE IF Lt(y, x) THEN y ELSE x

MathRoundDown(x) == IF ~isFinite(x) THEN x ELSE Whole(x[1] \div x[2])

\* Math.round: the integer nearest to x, ties towards +Infinity
MathRound(x) ==
    IF ~isFinite(x) THEN x
    ELSE Whole((x[1] \div x[2]) + (IF 2 * (x[1] % x[2]) >= x[2] THEN 1 ELSE 0))

\* +(x.toFixed(digits)): x to `digits` decimals, ties away from zero
ToFixed(x, digits) ==
    IF ~isFinite(x) THEN x
    ELSE LET s == Mul(MathAbs(x), Whole(Pow10(digits)))
             n == (s[1] \div s[2]) + (IF 2 * (s[1] % s[2]) >= s[2] THEN 1 ELSE 0)
         IN  Num(Sgn(x[1]) * n, Pow10(digits))

(* ------------------------------------------------------------------ *)
(* Strings: the values of inputs and hidden fields                     *)
(*   "empty"   the empty string                                        *)
(*   "junk"    the text s, which is no number ("abc")                  *)
(*   "num"     the decimal text of the number v ("Infinity", "NaN"     *)
(*             for the special values)                                 *)
(*   "numjunk" a number followed by other text ("12abc")               *)
(* ------------------------------------------------------------------ *)
EmptyStr == [t |-> "empty", v |-> NaN, s |-> ""]

Text(s) == [t |-> "junk", v |-> NaN, s |-> s]

NumStr(x) == [t |-> "num", v |-> x, s |-> ""]

NumJunkStr(x) == [t |-> "numjunk", v |-> x, s |-> "abc"]

\* Number(s)
Number(s) ==
    CASE s.t = "empty" -> Whole(0)
      [] s.t = "num" -> s.v
      [] OTHER -> NaN

\* parseFloat(s)
parseFloat(s) ==
    CASE s.t = "num" -> s.v
      [] s.t = "numjunk" -> s.v
      [] OTHER -> NaN

\* !s for a string s
Falsy(s) == s.t = "empty"

\* null and undefined, where a number may stand
Null == <<0, -1>>

Undefined == <<0, -2>>

(* ------------------------------------------------------------------ *)
(* americanToDecimal                                                   *)
(* ------------------------------------------------------------------ *)
americanToDecimalNoRound(a) ==
    LET n == Number(a)
    IN  IF ~isFinite(n) THEN Null
        ELSE IF Lt(Whole(0), n) THEN Add(Div(n, Whole(100)), Whole(1))
        ELSE Add(Div(Whole(100), MathAbs(n)), Whole(1))

\* x cut off after 4 decimals instead of rounded
Truncate4(x) == Num(Sgn(x[1]) * ((Abs(x[1]) * (10000 \div GCD(10000, x[2])))
                                    \div (x[2] \div GCD(10000, x[2]))), 10000)

americanToDecimalTruncates(a) ==
    LET n == Number(a)
    IN  IF ~isFinite(n) THEN Null
        ELSE IF Lt(Whole(0), n) THEN Truncate4(Add(Div(n, Whole(100)), Whole(1)))
        ELSE IF n = Whole(0) THEN Infinity
        ELSE Truncate4(Add(Div(Whole(100), MathAbs(n)), Whole(1)))

americanToDecimal(a) ==
    LET n == Number(a)
    IN  IF ~isFinite(n) THEN Null
        ELSE IF Lt(Whole(0), n) THEN ToFixed(Add(Div(n, Whole(100)), Whole(1)), 4)
        ELSE ToFixed(Add(Div(Whole(100), MathAbs(n)), Whole(1)), 4)

(* ------------------------------------------------------------------ *)
(* computeKelly                                                        *)
(* ------------------------------------------------------------------ *)
floorStake == Num(1, 10)

\* !x for a number x
FalsyNum(x) == IsNaN(x) \/ x = Whole(0)

KellyBody(bankroll, percentCap, odds, prob) ==
    LET b == Sub(odds, Whole(1))
        f0 == Div(Sub(Mul(b, prob), Sub(Whole(1), prob)), b)
        f == MathMax(Whole(0), f0)
        rawStake == Mul(f, bankroll)
        cap == Mul(percentCap, bankroll)
        recommended0 == MathMin(rawStake, cap)
        recommended == MathMax(recommended0, floorStake)
    IN  Div(MathRound(Mul(recommended, Whole(100))), Whole(100))

computeKellyFloorAlways(bankroll, percentCap, odds, prob) ==
    IF FalsyNum(odds) \/ FalsyNum(prob) \/ Le(odds, Whole(0))
         \/ Le(prob, Whole(0)) \/ Le(Whole(1), prob)
    THEN floorStake
    ELSE IF Le(Sub(odds, Whole(1)), Whole(0)) THEN floorStake
    ELSE KellyBody(bankroll, percentCap, odds, prob)

computeKellyNoCap(bankroll, percentCap, odds, prob) ==
    IF FalsyNum(odds) \/ FalsyNum(prob) \/ Le(odds, Whole(0))
         \/ Le(prob, Whole(0)) \/ Le(Whole(1), prob)
    THEN Whole(0)
    ELSE IF Le(Sub(odds, Whole(1)), Whole(0)) THEN Whole(0)
    ELSE LET b == Sub(odds, Whole(1))
             f == MathMax(Whole(0), Div(Sub(Mul(b, prob), Sub(Whole(1), prob)), b))
             recommended == MathMax(Mul(f, bankroll), floorStake)
         IN  Div(MathRound(Mul(recommended, Whole(100))), Whole(100))

computeKelly(bankroll, percentCap, odds, prob) ==
    IF FalsyNum(odds) \/ FalsyNum(prob) \/ Le(odds, Whole(0))
         \/ Le(prob, Whole(0)) \/ Le(Whole(1), prob)
    THEN Whole(0)
    ELSE IF Le(Sub(odds, Whole(1)), Whole(0)) THEN Whole(0)
    ELSE KellyBody(bankroll, percentCap, odds, prob)

(* ------------------------------------------------------------------ *)
(* The page                                                            *)
(* ------------------------------------------------------------------ *)
VARIABLES
    american_odds,      \* value of input #american_odds (aInput)
    prob,               \* value of input #prob (probInput)
    bet_name,           \* value of input #bet_name
    actual_stake,       \* value of input #actual_stake
    sport,              \* value of #sport
    bet_type,           \* value of #bet_type
    converted_decimal,  \* text of span #converted_decimal (outSpan)
    recommended_stake,  \* text of span #recommended_stake (recommendedSpan)
    odds_hidden,        \* value of hidden field #odds_hidden
    empirical_info,     \* text of #empirical_info
    form,               \* values of the hidden fields form_name .. form_type
    bankroll,           \* closure variable bankroll
    percentCap,         \* closure variable percentCap
    pending,            \* fetches of /api/empirical_info not yet settled
    issued,             \* number of fetches issued so far
    queries,            \* history: number of calls of updateEmpiricalInfo
    settled,            \* history: number of fetches that resolved or failed
    lastArrived,        \* history: the fetch whose body arrived last
    latestArrived,      \* history: the latest-issued fetch whose body has arrived
    shown,              \* history: the fetch whose response empirical_info shows
    lastEvent,          \* history: the handler that ran last, and what it did
    kellyCalled,        \* history: whether updateRecommended last called computeKelly
    call                \* a single call of americanToDecimal or computeKelly

inputVars == <<american_odds, prob, bet_name, actual_stake, sport, bet_type>>

stakeVars == <<converted_decimal, recommended_stake, odds_hidden>>

fetchVars == <<pending, issued, queries, settled, lastArrived, latestArrived, shown,
              empirical_info>>

pageVars == <<inputVars, stakeVars, fetchVars, form, bankroll, percentCap,
              lastEvent, kellyCalled>>

vars == <<pageVars, call>>

(* values a user may type *)
AmericanTyped ==
    {EmptyStr, Text("abc"), NumStr(Whole(0)), NumStr(Whole(-150)), NumStr(Whole(100))}

ProbTyped == {EmptyStr, Text("abc"), NumJunkStr(Num(11, 20)), NumStr(Num(11, 20))}

NameTyped == {EmptyStr, Text("Lakers ML")}

StakeTyped == {EmptyStr, NumStr(Whole(5))}

SportTyped == {EmptyStr, Text("NBA")}

BetTypeTyped == {EmptyStr, Text("Spread")}

(* texts the page template may hold in #bankroll_value, #percent_cap_value *)
BankrollText == {NumStr(Whole(1000))}

PercentCapText == {EmptyStr}

\* x || y for strings
OrElse(x, y) == IF Falsy(x) THEN y ELSE x

\* the sentinel text, an em dash
Dash == Text("--")

\* '$' + rec.toFixed(2)
Dollar(rec) == [t |-> "dollar", v |-> ToFixed(rec, 2), s |-> "$"]

NoForm ==
    [form_name |-> EmptyStr, form_odds |-> EmptyStr, form_prob |-> EmptyStr,
     form_stake |-> EmptyStr, form_sport |-> EmptyStr, form_type |-> EmptyStr]

Idle == [kind |-> "load", alert |-> FALSE, prevented |-> FALSE]

NoCall ==
    [fn |-> "none", a |-> EmptyStr, B |-> NaN, c |-> NaN, o |-> NaN, p |-> NaN,
     out |-> NaN, done |-> FALSE]

(* ---------------- updateEmpiricalInfo: the request ---------------- *)
Request(id, sportValue, betTypeValue, probValue) ==
    [id |-> id,
     sport |-> OrElse(sportValue, EmptyStr),
     bet_type |-> OrElse(betTypeValue, EmptyStr),
     prob |-> OrElse(probValue, NumStr(Num(1, 2)))]

updateEmpiricalInfo ==
    /\ issued < MaxRequests
    /\ issued' = issued + 1
    /\ pending' = pending \cup {Request(issued + 1, sport', bet_type', prob')}
    /\ queries' = queries + 1
    /\ UNCHANGED <<settled, lastArrived, latestArrived, shown, empirical_info>>

(* ---------------- updateRecommended ---------------- *)
updateRecommendedKeepsOdds ==
    LET dec == americanToDecimal(american_odds')
        p == parseFloat(prob')
    IN  IF dec = Null \/ ~isFinite(p)
        THEN /\ recommended_stake' = Dash
             /\ UNCHANGED <<converted_decimal, odds_hidden>>
             /\ kellyCalled' = FALSE
        ELSE /\ converted_decimal' = NumStr(dec)
             /\ recommended_stake' = Dollar(computeKelly(bankroll, percentCap, dec, p))
             /\ odds_hidden' = NumStr(dec)
             /\ kellyCalled' = TRUE

updateRecommended ==
    LET dec == americanToDecimal(american_odds')
        p == parseFloat(prob')
    IN  IF dec = Null \/ ~isFinite(p)
        THEN /\ recommended_stake' = Dash
             /\ odds_hidden' = EmptyStr
             /\ UNCHANGED converted_decimal
             /\ kellyCalled' = FALSE
        ELSE /\ converted_decimal' = NumStr(dec)
             /\ recommended_stake' = Dollar(computeKelly(bankroll, percentCap, dec, p))
             /\ odds_hidden' = NumStr(dec)
             /\ kellyCalled' = TRUE

Submitted == lastEvent.kind = "submit" /\ ~lastEvent.prevented

(* ---------------- input events ---------------- *)
\* 'input' on #american_odds: updateRecommended
AmericanInput ==
    /\ ~Submitted
    /\ \E s \in AmericanTyped \ {american_odds} : american_odds' = s
    /\ UNCHANGED <<prob, bet_name, actual_stake, sport, bet_type>>
    /\ updateRecommended
    /\ lastEvent' = [kind |-> "input", alert |-> FALSE, prevented |-> FALSE]
    /\ UNCHANGED <<fetchVars, form, bankroll, percentCap, call>>

\* 'input' on #prob: updateRecommended, then updateEmpiricalInfo
ProbInput ==
    /\ ~Submitted
    /\ \E s \in ProbTyped \ {prob} : prob' = s
    /\ UNCHANGED <<american_odds, bet_name, actual_stake, sport, bet_type>>
    /\ updateRecommended
    /\ updateEmpiricalInfo
    /\ lastEvent' = [kind |-> "input", alert |-> FALSE, prevented |-> FALSE]
    /\ UNCHANGED <<form, bankroll, percentCap, call>>

\* 'input' on #sport: updateEmpiricalInfo
SportInput ==
    /\ ~Submitted
    /\ \E s \in SportTyped \ {sport} : sport' = s
    /\ UNCHANGED <<american_odds, prob, bet_name, actual_stake, bet_type>>
    /\ updateEmpiricalInfo
    /\ lastEvent' = [kind |-> "input", alert |-> FALSE, prevented |-> FALSE]
    /\ UNCHANGED <<kellyCalled, stakeVars, form, bankroll, percentCap, call>>

\* 'change' on #bet_type: updateEmpiricalInfo
BetTypeChange ==
    /\ ~Submitted
    /\ \E s \in BetTypeTyped \ {bet_type} : bet_type' = s
    /\ UNCHANGED <<american_odds, prob, bet_name, actual_stake, sport>>
    /\ updateEmpiricalInfo
    /\ lastEvent' = [kind |-> "input", alert |-> FALSE, prevented |-> FALSE]
    /\ UNCHANGED <<kellyCalled, stakeVars, form, bankroll, percentCap, call>>

\* #bet_name and #actual_stake have no listener
NameInput ==
    /\ ~Submitted
    /\ \E s \in NameTyped \ {bet_name} : bet_name' = s
    /\ UNCHANGED <<american_odds, prob, actual_stake, sport, bet_type>>
    /\ lastEvent' = [kind |-> "input", alert |-> FALSE, prevented |-> FALSE]
    /\ UNCHANGED <<kellyCalled, stakeVars, fetchVars, form, bankroll, percentCap, call>>

StakeInput ==
    /\ ~Submitted
    /\ \E s \in StakeTyped \ {actual_stake} : actual_stake' = s
    /\ UNCHANGED <<american_odds, prob, bet_name, sport, bet_type>>
    /\ lastEvent' = [kind |-> "input", alert |-> FALSE, prevented |-> FALSE]
    /\ UNCHANGED <<kellyCalled, stakeVars, fetchVars, form, bankroll, percentCap, call>>

(* ---------------- updateEmpiricalInfo: the response ---------------- *)
\* bodies the endpoint may answer with
Responses ==
    {[empirical |-> Null, adjusted |-> Num(11, 20), alpha |-> Num(1, 3),
      matching_count |-> Whole(0)],
     [empirical |-> Num(61235, 100000), adjusted |-> Num(29, 50), alpha |-> Num(1, 3),
      matching_count |-> Whole(12)],
     [empirical |-> Null, adjusted |-> Undefined, alpha |-> Undefined,
      matching_count |-> Undefined]}

\* the ways a fetch fails: fetch() rejects, r.json() rejects
Failures == {"fetchRejected", "jsonRejected"}

\* Number(x) for a field of the body
NumberOf(x) == IF x = Null THEN Whole(0) ELSE IF x = Undefined THEN NaN ELSE x

NoInfo ==
    [kind |-> "template", empirical |-> Null, adjusted |-> Null, alpha |-> Null,
     n |-> Null]

\* the text written to #empirical_info; Null stands for the dash
InfoText(data) ==
    IF data.empirical = Null \/ data.matching_count = Whole(0)
    THEN [kind |-> "adjustedOnly", empirical |-> Null,
          adjusted |-> IF data.adjusted # Undefined
                       THEN ToFixed(NumberOf(data.adjusted), 4) ELSE Null,
          alpha |-> Null, n |-> Null]
    ELSE [kind |-> "full",
          empirical |-> ToFixed(NumberOf(data.empirical), 4),
          adjusted |-> ToFixed(NumberOf(data.adjusted), 4),
          alpha |-> ToFixed(NumberOf(data.alpha), 2),
          n |-> IF data.matching_count = Undefined \/ FalsyNum(data.matching_count)
                THEN Whole(0) ELSE data.matching_count]

ResponseLatestOnly(r, data) ==
    /\ ~Submitted
    /\ r \in pending
    /\ pending' = pending \ {r}
    /\ settled' = settled + 1
    /\ lastArrived' = r.id
    /\ latestArrived' = IF r.id > latestArrived THEN r.id ELSE latestArrived
    /\ IF r.id = issued
       THEN empirical_info' = InfoText(data) /\ shown' = r.id
       ELSE UNCHANGED <<empirical_info, shown>>
    /\ lastEvent' = [kind |-> "response", alert |-> FALSE, prevented |-> FALSE]
    /\ UNCHANGED <<kellyCalled, inputVars, stakeVars, issued, queries, form, bankroll,
                   percentCap, call>>

\* the fetch r resolves with a body that parses to data
Response(r, data) ==
    /\ ~Submitted
    /\ r \in pending
    /\ pending' = pending \ {r}
    /\ settled' = settled + 1
    /\ lastArrived' = r.id
    /\ latestArrived' = IF r.id > latestArrived THEN r.id ELSE latestArrived
    /\ empirical_info' = InfoText(data)
    /\ shown' = r.id
    /\ lastEvent' = [kind |-> "response", alert |-> FALSE, prevented |-> FALSE]
    /\ UNCHANGED <<kellyCalled, inputVars, stakeVars, issued, queries, form, bankroll,
                   percentCap, call>>

ResponseFailedShowsError(r, why) ==
    /\ ~Submitted
    /\ r \in pending
    /\ pending' = pending \ {r}
    /\ settled' = settled + 1
    /\ empirical_info' = NoInfo
    /\ lastEvent' = [kind |-> why, alert |-> FALSE, prevented |-> FALSE]
    /\ UNCHANGED <<kellyCalled, inputVars, stakeVars, issued, queries, lastArrived, latestArrived,
                   shown, form, bankroll, percentCap, call>>

\* the fetch r fails: .catch(function(){})
ResponseFailed(r, why) ==
    /\ ~Submitted
    /\ r \in pending
    /\ pending' = pending \ {r}
    /\ settled' = settled + 1
    /\ lastEvent' = [kind |-> why, alert |-> FALSE, prevented |-> FALSE]
    /\ UNCHANGED <<kellyCalled, inputVars, stakeVars, issued, queries, lastArrived, latestArrived,
                   shown, empirical_info, form, bankroll, percentCap, call>>

(* ---------------- the submit listener of #betForm ---------------- *)
SubmitIgnoresStake ==
    /\ ~Submitted
    /\ IF Falsy(bet_name) \/ Falsy(odds_hidden) \/ Falsy(prob)
       THEN /\ lastEvent' = [kind |-> "submit", alert |-> TRUE, prevented |-> TRUE]
            /\ UNCHANGED form
       ELSE /\ lastEvent' = [kind |-> "submit", alert |-> FALSE, prevented |-> FALSE]
            /\ form' = [form_name |-> bet_name, form_odds |-> odds_hidden,
                        form_prob |-> prob, form_stake |-> actual_stake,
                        form_sport |-> OrElse(sport, EmptyStr),
                        form_type |-> OrElse(bet_type, Text("Moneyline"))]
    /\ UNCHANGED <<kellyCalled, inputVars, stakeVars, fetchVars, bankroll, percentCap, call>>

Submit ==
    /\ ~Submitted
    /\ LET name == bet_name
           odds == odds_hidden
           stake == actual_stake
           type == OrElse(bet_type, Text("Moneyline"))
       IN  IF Falsy(name) \/ Falsy(odds) \/ Falsy(prob) \/ Falsy(stake)
           THEN /\ lastEvent' = [kind |-> "submit", alert |-> TRUE, prevented |-> TRUE]
                /\ UNCHANGED form
           ELSE /\ lastEvent' = [kind |-> "submit", alert |-> FALSE, prevented |-> FALSE]
                /\ form' = [form_name |-> name, form_odds |-> odds,
                            form_prob |-> prob, form_stake |-> stake,
                            form_sport |-> OrElse(sport, EmptyStr),
                            form_type |-> type]
    /\ UNCHANGED <<kellyCalled, inputVars, stakeVars, fetchVars, bankroll, percentCap, call>>

(* ---------------- the page after DOMContentLoaded ---------------- *)
PageLoaded(bankrollText, percentCapText) ==
    /\ american_odds = EmptyStr
    /\ prob = EmptyStr
    /\ bet_name = EmptyStr
    /\ actual_stake = EmptyStr
    /\ sport = EmptyStr
    /\ bet_type = EmptyStr
    /\ converted_decimal = EmptyStr
    /\ recommended_stake = EmptyStr
    /\ odds_hidden = EmptyStr
    /\ empirical_info = NoInfo
    /\ form = NoForm
    /\ bankroll = parseFloat(OrElse(bankrollText, NumStr(Whole(0))))
    /\ percentCap = parseFloat(OrElse(percentCapText, NumStr(Num(1, 50))))
    /\ pending = {Request(1, EmptyStr, EmptyStr, EmptyStr)}
    /\ issued = 1
    /\ queries = 1
    /\ settled = 0
    /\ lastArrived = 0
    /\ latestArrived = 0
    /\ shown = 0
    /\ lastEvent = Idle
    /\ kellyCalled = FALSE

Init ==
    /\ \E b \in BankrollText, c \in PercentCapText : PageLoaded(b, c)
    /\ call = NoCall

\* the user fills the form and submits; no fetch settles meanwhile
Next ==
    \/ AmericanInput
    \/ ProbInput
    \/ SportInput
    \/ BetTypeChange
    \/ NameInput
    \/ StakeInput
    \/ Submit

Spec == Init /\ [][Next]_vars

\* the user works the fields that query the endpoint; the fetches settle
InitFetch == Init

NextFetch ==
    \/ ProbInput
    \/ SportInput
    \/ BetTypeChange
    \/ \E r \in pending, data \in Responses : Response(r, data)
    \/ \E r \in pending, why \in Failures : ResponseFailed(r, why)

SpecFetch == InitFetch /\ [][NextFetch]_vars

(* ------------------------------------------------------------------ *)
(* Single calls of the two pure functions                              *)
(* ------------------------------------------------------------------ *)
QuietPage == PageLoaded(NumStr(Whole(1000)), EmptyStr)

\* American odds m * 10^e, and a few fractional ones
AmericanNumbers ==
    {Whole(-m * Pow10(e)) : m \in 0..MaxMant, e \in 0..MaxNegExp}
        \cup {Whole(m * Pow10(e)) : m \in 0..MaxMant, e \in 0..MaxPosExp}
        \cup {Num(m, 1000) : m \in 1..MaxMant}
        \cup {Num(-m, 10) : m \in 1..MaxMant}

AmericanArgs ==
    {NumStr(x) : x \in AmericanNumbers}
        \cup {EmptyStr, Text("abc"), NumJunkStr(Whole(100)), NumStr(Infinity),
              NumStr(Neg(Infinity)), NumStr(NaN)}

InitConvert ==
    /\ QuietPage
    /\ \E a \in AmericanArgs :
           call = [NoCall EXCEPT !.fn = "americanToDecimal", !.a = a]

CallAmericanToDecimal ==
    /\ call.fn = "americanToDecimal"
    /\ ~call.done
    /\ call' = [call EXCEPT !.out = americanToDecimal(call.a), !.done = TRUE]
    /\ UNCHANGED pageVars

SpecConvert == InitConvert /\ [][CallAmericanToDecimal]_vars

BankrollArgs ==
    {Whole(m) : m \in 0..MaxBankrollSmall} \cup {Whole(250 * m) : m \in 0..MaxBankrollStep}

PercentCapArgs == {Num(k, 200) : k \in 0..MaxCapStep} \cup {Whole(1)}

OddsArgs ==
    {americanToDecimal(NumStr(Whole(50 * k))) : k \in (0 - MaxKellyOdds)..MaxKellyOdds}
        \cup {Whole(0), Whole(1), Whole(-2), Num(1, 2), NaN}

ProbArgs == {Num(k, 20) : k \in (0 - 1)..MaxProbStep} \cup {NaN}

InitKelly ==
    /\ QuietPage
    /\ \E B \in BankrollArgs, c \in PercentCapArgs, o \in OddsArgs, p \in ProbArgs :
           call = [NoCall EXCEPT !.fn = "computeKelly", !.B = B, !.c = c, !.o = o,
                                 !.p = p]

CallComputeKelly ==
    /\ call.fn = "computeKelly"
    /\ ~call.done
    /\ call' = [call EXCEPT !.out = computeKelly(call.B, call.c, call.o, call.p),
                            !.done = TRUE]
    /\ UNCHANGED pageVars

SpecKelly == InitKelly /\ [][CallComputeKelly]_vars

(* ------------------------------------------------------------------ *)
(* Properties of americanToDecimal (SpecConvert)                       *)
(* ------------------------------------------------------------------ *)
Converted == call.fn = "americanToDecimal" /\ call.done

\* x is `exact` rounded to `digits` decimals: a multiple of 10^-digits at most
\* half a unit away, the upper one on a tie
IsRounded(x, exact, digits) ==
    /\ isFinite(x)
    /\ Pow10(digits) % x[2] = 0
    /\ Lt(Sub(exact, Num(1, 2 * Pow10(digits))), x)
    /\ Le(x, Add(exact, Num(1, 2 * Pow10(digits))))

\* what the conversion adds to 1 before rounding
Excess(n) ==
    IF Lt(Whole(0), n) THEN Div(n, Whole(100)) ELSE Div(Whole(100), MathAbs(n))

FiniteNonZero(a) == a.t = "num" /\ isFinite(a.v) /\ a.v # Whole(0)

\* C3: for finite a > 0 americanToDecimal returns 1 + a/100 rounded to 4
\* decimals, for finite a < 0 it returns 1 + 100/|a| rounded to 4 decimals.
C3_ConversionFormula ==
    (Converted /\ FiniteNonZero(call.a)) =>
        IF call.a.v[1] > 0
        THEN IsRounded(call.out, Add(Whole(1), Num(call.a.v[1], 100 * call.a.v[2])), 4)
        ELSE IsRounded(call.out, Add(Whole(1), Num(100 * call.a.v[2], 0 - call.a.v[1])), 4)

\* both branches have been taken on values the rounding changes
C3_Witness ==
    /\ Converted
    /\ call.a = NumStr(Whole(-150))
    /\ call.out = Num(16667, 10000)

Computed == call.fn = "computeKelly" /\ call.done

\* bankroll >= 0, cap fraction in [0,1], odds > 1, 0 < probability < 1
ValidKelly ==
    /\ Computed
    /\ Le(Whole(0), call.B) /\ isFinite(call.B)
    /\ Le(Whole(0), call.c) /\ Le(call.c, Whole(1))
    /\ Lt(Whole(1), call.o) /\ isFinite(call.o)
    /\ Lt(Whole(0), call.p) /\ Lt(call.p, Whole(1))

\* p <= 0, p >= 1, o <= 0 or o - 1 <= 0
ViolatedKelly ==
    /\ Computed
    /\ \/ Le(call.p, Whole(0))
       \/ Le(Whole(1), call.p)
       \/ Le(call.o, Whole(0))
       \/ Le(Sub(call.o, Whole(1)), Whole(0))

CapOrFloor == MathMax(Mul(call.c, call.B), Num(1, 10))

\* C1 as stated: for valid input the returned stake r, after rounding,
\* satisfies 0.10 <= r <= max(c*B, 0.10).
C1_StakeWithinCap ==
    ValidKelly => (Le(Num(1, 10), call.out) /\ Le(call.out, CapOrFloor))

\* C1 amended: for valid input 0.10 <= r <= max(c*B, 0.10) rounded to cents;
\* the rounding may lift r above the unrounded cap by up to half a cent.
C1_StakeWithinRoundedCap ==
    ValidKelly =>
        /\ Le(Num(1, 10), call.out)
        /\ Le(call.out, Div(MathRound(Mul(CapOrFloor, Whole(100))), Whole(100)))
        /\ Le(call.out, Add(CapOrFloor, Num(1, 200)))

\* a valid call whose rounded stake exceeds max(c*B, 0.10)
C1_Witness == ValidKelly /\ Lt(CapOrFloor, call.out)

\* C2 as stated: computeKelly never returns zero; with a violated
\* precondition it returns the floor 0.10.
C2_FloorOnInvalid ==
    /\ Computed => call.out # Whole(0)
    /\ ViolatedKelly => call.out = Num(1, 10)

\* C2 amended: with a violated precondition computeKelly returns 0, the floor
\* is not applied; the floor applies when every precondition holds.
C2_ZeroOnInvalid ==
    /\ ViolatedKelly => call.out = Whole(0)
    /\ ValidKelly => Le(Num(1, 10), call.out)

\* computeKelly(1000, 0.02, 2.0, 1) has returned 0
C2_Witness ==
    /\ Computed
    /\ call.B = Whole(1000) /\ call.c = Num(1, 50)
    /\ call.o = Whole(2) /\ call.p = Whole(1)
    /\ call.out = Whole(0)

\* the edge b*p - (1 - p) of a bet, b = o - 1
Edge(o, p) == Sub(Mul(Sub(o, Whole(1)), p), Sub(Whole(1), p))

\* the stake before the floor and the rounding, for a positive edge
CappedStake(B, c, o, p) ==
    LET kelly == Mul(Div(Edge(o, p), Sub(o, Whole(1))), B)
        cap == Mul(c, B)
    IN  IF Lt(cap, kelly) THEN cap ELSE kelly

\* C4: for valid input computeKelly returns round2(max(min(max(f,0)*B, c*B),
\* 0.10)), f = (b*p - (1-p))/b: 0.10 for every bet without positive edge or
\* with a capped stake of at most 0.10, else the capped stake rounded to cents;
\* computeKelly(1000, 0.02, 2.0, 0.55) = 20.00, computeKelly(1000, 0.02, 1.5,
\* 0.5) = 0.10.
C4_KellyFormula ==
    /\ ValidKelly =>
          IF Le(Edge(call.o, call.p), Whole(0))
          THEN call.out = Num(1, 10)
          ELSE IF Le(CappedStake(call.B, call.c, call.o, call.p), Num(1, 10))
          THEN call.out = Num(1, 10)
          ELSE IsRounded(call.out, CappedStake(call.B, call.c, call.o, call.p), 2)
    /\ (Computed /\ call.B = Whole(1000) /\ call.c = Num(1, 50)
          /\ call.o = Whole(2) /\ call.p = Num(11, 20)) => call.out = Whole(20)
    /\ (Computed /\ call.B = Whole(1000) /\ call.c = Num(1, 50)
          /\ call.o = Num(3, 2) /\ call.p = Num(1, 2)) => call.out = Num(1, 10)

\* computeKelly(1000, 0.02, 2.0, 0.55) has returned 20
C4_Witness ==
    /\ Computed
    /\ call.B = Whole(1000) /\ call.c = Num(1, 50)
    /\ call.o = Whole(2) /\ call.p = Num(11, 20)
    /\ call.out = Whole(20)

(* ------------------------------------------------------------------ *)
(* Properties of the form (Spec)                                       *)
(* ------------------------------------------------------------------ *)
\* C5: a submit with an empty bet name, odds_hidden, probability or stake
\* raises the alert, cancels the event, starts no request and leaves the
\* form_* fields unchanged; otherwise the values are copied into the form_*
\* fields (form_type falls back to 'Moneyline') and the event is not cancelled.
C5_SubmitValidation ==
    [][lastEvent'.kind = "submit" =>
          IF Falsy(bet_name) \/ Falsy(odds_hidden) \/ Falsy(prob) \/ Falsy(actual_stake)
          THEN /\ lastEvent'.alert
               /\ lastEvent'.prevented
               /\ form' = form
               /\ pending' = pending
               /\ issued' = issued
          ELSE /\ ~lastEvent'.alert
               /\ ~lastEvent'.prevented
               /\ form'.form_name = bet_name
               /\ form'.form_odds = odds_hidden
               /\ form'.form_prob = prob
               /\ form'.form_stake = actual_stake
               /\ form'.form_sport = sport
               /\ form'.form_type = (IF bet_type = EmptyStr THEN Text("Moneyline")
                                     ELSE bet_type)]_vars

\* a submit rejected for the empty odds_hidden alone
C5_Witness ==
    /\ lastEvent.kind = "submit"
    /\ lastEvent.alert
    /\ lastEvent.prevented
    /\ ~Falsy(bet_name) /\ ~Falsy(prob) /\ ~Falsy(actual_stake)
    /\ Falsy(odds_hidden)
    /\ form = NoForm

\* C8: an input event on the odds or the probability field, with odds that
\* are no finite number or a probability that parses to no finite number, sets
\* recommended_stake to the dash, empties odds_hidden and calls no computeKelly.
C8_SentinelOnMalformed ==
    [][((american_odds' # american_odds \/ prob' # prob)
          /\ (americanToDecimal(american_odds') = Null \/ ~isFinite(parseFloat(prob'))))
       => (/\ recommended_stake' = Dash
           /\ odds_hidden' = EmptyStr
           /\ ~kellyCalled')]_vars

\* malformed odds typed after a valid pair had filled odds_hidden
C8_Witness ==
    /\ lastEvent.kind = "input"
    /\ american_odds = Text("abc")
    /\ converted_decimal # EmptyStr
    /\ recommended_stake = Dash
    /\ odds_hidden = EmptyStr
    /\ ~kellyCalled

\* C10: when the submit listener accepts, form_odds holds a finite decimal
\* odds value above 1, the text of americanToDecimal of the American odds input.
C10_SubmittedOddsValid ==
    Submitted =>
        /\ form.form_odds.t = "num"
        /\ isFinite(form.form_odds.v)
        /\ Lt(Whole(1), form.form_odds.v)
        /\ form.form_odds = NumStr(americanToDecimal(american_odds))

(* ------------------------------------------------------------------ *)
(* Properties of the empirical-info fetches (SpecFetch)                *)
(* ------------------------------------------------------------------ *)
\* C6: every call of updateEmpiricalInfo issues one request, none is merged
\* or cancelled, and empirical_info shows the body that arrived last, whatever
\* the order of the requests.
C6_ArrivalOrder ==
    /\ issued = queries
    /\ Cardinality(pending) + settled = issued
    /\ shown = lastArrived
    /\ (lastArrived = 0) => (empirical_info = NoInfo)

\* all requests have settled, the body of the last one issued has arrived, and
\* empirical_info shows the body of an earlier one
C6_Witness ==
    /\ pending = {}
    /\ issued >= 2
    /\ latestArrived = issued
    /\ shown > 0
    /\ shown < issued

\* C7: a failed fetch leaves empirical_info as it was, issues no request and
\* changes no other display or field.
C7_FailureSwallowed ==
    [][lastEvent'.kind \in Failures =>
          /\ empirical_info' = empirical_info
          /\ issued' = issued
          /\ pending' \subseteq pending
          /\ UNCHANGED <<inputVars, stakeVars, form, shown>>]_vars

\* a fetch failed while empirical_info showed an earlier response
C7_Witness ==
    /\ lastEvent.kind \in Failures
    /\ empirical_info # NoInfo
    /\ shown > 0
    /\ settled >= 2

====
